---------------------------- MODULE Spec2Model ----------------------------
(***************************************************************************)
(* A model of the resumable chunk-replay script git_chunky_processor       *)
(* (revisions V2 and V3): main, process_chunks, the three git wrappers and *)
(* the processed-set store, together with the parts of the environment the *)
(* script acts on: the process working directory, the store file in each   *)
(* directory, the git index, the local history and the remote.             *)
(*                                                                         *)
(* One run of the script is StartRun followed by the steps of the chunk    *)
(* loop; pc is the position of the process inside process_chunks.  Every   *)
(* external command may succeed, exit non-zero or fail to start (OSError). *)
(* Crash stops the process at any point; a later StartRun is a restart.    *)
(*                                                                         *)
(* Specifications:                                                         *)
(*   Spec         runs over every parsed chunk list, valid paths           *)
(*   SpecNoCrash  the same, the process never killed                       *)
(*   SpecMain     main over every state of the paths and of the store      *)
(*   SpecCounts   runs over headers declaring any file count               *)
(*   SpecRerun    re-runs for ever, nothing failing after the first run    *)
(*   SpecLoad     load_processed_chunks applied to any store file          *)
(*   SpecParse    parse_chunks applied to any log, character by character  *)
(***************************************************************************)
EXTENDS Integers, Sequences, FiniteSets, TLC

(***************************************************************************)
(* Bounds of the model.                                                    *)
(***************************************************************************)
MaxChunks == 2
MaxNum == 2
MaxFiles == 2
MaxRuns == 2
MaxItems == 2
MaxLines == 3

Paths == {"a.txt", "b.txt"}
FileCounts == {2}
Versions == {2, 3}
\* How the repository path given to main relates to the launch directory:
\*   "abs"  an absolute path, launch directory outside the repository
\*   "rel"  a relative path, launch directory outside the repository
\*   "dot"  any path that names the launch directory itself
PathKinds == {"abs", "rel", "dot"}
\* What main finds at the paths it is given:
\*   "ok"      the log is a file, the repository a directory with .git
\*   "nolog"   the log path is not a file
\*   "norepo"  the repository path is not a directory
\*   "nogit"   the repository directory has no .git directory
Envs == {"ok", "nolog", "norepo", "nogit"}
Dirs == {"launch", "repo"}

VARIABLES
    chunks,            \* the parsed chunk list (input log, same for every run)
    version,           \* 2: line-based store, 3: JSON store
    pathKind,          \* see PathKinds
    env,               \* see Envs
    benignReruns,      \* nothing fails for outside reasons after the first run
    pc,                \* position of the process
    ending,            \* how the last run ended
    run,               \* number of runs started
    idx,               \* 1-based position of the for loop in chunks
    fileIdx,           \* 1-based position of git_add_files in chunk.files
    cwd,               \* process working directory
    processed_chunks,  \* the set process_chunks loaded at its start
    pending,           \* the local set of save_processed_chunk (V3)
    store,             \* content of the store file in each directory
    index,             \* paths staged in the git index
    history,           \* local commits
    remote,            \* commits on the remote
    calls,             \* events of the chunk started last in this run
    callsIdx,          \* the position in chunks that calls belongs to
    log,               \* per finished chunk of this run: summary of its events
    savedIn,           \* per directory: positions whose save has returned
    committedBefore,   \* positions whose commit an earlier run created
    committed,         \* positions whose commit some run created
    rawFile,           \* a store file as found on disk (see Doc)
    loadOut,           \* what load_processed_chunks did on rawFile
    text,              \* the log given to parse_chunks, as grammar items
    lineNo,            \* 1-based position of parse_chunks in the log
    current_chunk,     \* <<>> for None, or <<the open record>>
    parsed,            \* the local list `chunks` of parse_chunks
    parseState         \* "idle", "reading", "returned" or "raised"

\* The variables of the functions checked on their own.
loadVars == <<rawFile, loadOut>>
parseVars == <<text, lineNo, current_chunk, parsed, parseState>>
unitVars == <<loadVars, parseVars>>

vars == <<chunks, version, pathKind, env, benignReruns, pc, ending, run, idx, fileIdx, cwd,
          processed_chunks, pending, store, index, history, remote,
          calls, callsIdx, log, savedIn, committedBefore, committed,
          unitVars>>

inputVars == <<chunks, version, pathKind, env, benignReruns, unitVars>>
processVars == <<pc, ending, run, idx, fileIdx, cwd, processed_chunks, pending,
                 store, index, history, remote, calls, callsIdx, log, savedIn,
                 committedBefore, committed>>
repoVars == <<index, history, remote>>

-----------------------------------------------------------------------------
(***************************************************************************)
(* Inputs.                                                                 *)
(***************************************************************************)
RECURSIVE SeqsUpTo(_, _)
SeqsUpTo(S, n) ==
    IF n = 0 THEN {<<>>}
    ELSE LET shorter == SeqsUpTo(S, n - 1)
         IN  shorter \cup {Append(s, x) : s \in {t \in shorter : Len(t) = n - 1}, x \in S}

\* The file lists of a chunk: a chunk of a partition lists no path twice.
FileLists ==
    {s \in SeqsUpTo(Paths, MaxFiles) : \A i, j \in DOMAIN s : s[i] = s[j] => i = j}

\* A record built by parse_chunks.
ChunkRecords ==
    [number : 1..MaxNum, file_count : FileCounts, files : FileLists]

ChunkLists == SeqsUpTo(ChunkRecords, MaxChunks)

-----------------------------------------------------------------------------
(***************************************************************************)
(* The store file.  A file is absent, empty (zero bytes), a JSON array     *)
(* (V3) or a sequence of decimal lines (V2).                               *)
(***************************************************************************)
Absent == [kind |-> "absent", items |-> <<>>]
EmptyFile == [kind |-> "empty", items |-> <<>>]
JsonFile(s) == [kind |-> "json", items |-> s]
LinesFile(s) == [kind |-> "lines", items |-> s]

Range(s) == {s[i] : i \in DOMAIN s}

Min(S) == CHOOSE x \in S : \A y \in S : x <= y

\* list(processed_chunks): the elements of a set of small ints, ascending.
RECURSIVE SetToList(_)
SetToList(S) ==
    IF S = {} THEN <<>> ELSE <<Min(S)>> \o SetToList(S \ {Min(S)})

(***************************************************************************)
(* What a store file may hold when it was not written by this script.  A   *)
(* value is tagged: "int" the integer v, "str" the string spelling v,      *)
(* "frac" the number v + 1/2, "arr" the nested array [v], "blank" an empty *)
(* line, "text" a non-numeric line.  A document has a shape:               *)
(*   "absent"   no file                                                    *)
(*   "garbage"  neither JSON nor lines of decimals (zero bytes for JSON)   *)
(*   "list"     a JSON array of the items                                  *)
(*   "object"   a JSON object, the items are its keys                      *)
(*   "string"   a JSON string, the items are its characters                *)
(*   "scalar"   a JSON number, true, false or null                         *)
(*   "lines"    the lines of a text file                                   *)
(***************************************************************************)
Val(t, v) == [t |-> t, v |-> v]
Doc(shape, items) == [shape |-> shape, items |-> items]

\* The document a store file of the script is, read by revision v.
DocOf(f, v) ==
    LET ints == [i \in DOMAIN f.items |-> Val("int", f.items[i])]
    IN  IF f.kind = "absent" THEN Doc("absent", <<>>)
        ELSE IF v = 3
        THEN IF f.kind = "json" THEN Doc("list", ints) ELSE Doc("garbage", <<>>)
        ELSE IF f.kind = "lines" THEN Doc("lines", ints)
        ELSE IF f.kind = "empty" THEN Doc("lines", <<>>)
        ELSE Doc("garbage", <<>>)

\* set(json.load(f)): json.load raises on text that is not JSON, set()
\* raises on a value that is not iterable and on an unhashable element; a
\* list, the keys of a dict and the characters of a str are taken as they
\* are.
JsonLoad(d) ==
    IF d.shape \in {"garbage", "scalar", "lines"}
       \/ \E i \in DOMAIN d.items : d.items[i].t = "arr"
    THEN [raised |-> TRUE, elems |-> {}]
    ELSE [raised |-> FALSE, elems |-> Range(d.items)]

\* {int(line.strip()) for line in f}: int raises on a line that is not a
\* decimal integer.
LinesLoad(d) ==
    IF d.shape # "lines" \/ \E i \in DOMAIN d.items : d.items[i].t # "int"
    THEN [raised |-> TRUE, elems |-> {}]
    ELSE [raised |-> FALSE, elems |-> Range(d.items)]

\* load_processed_chunks: the exists test, then the revision's reader.
Load(d, v) ==
    IF d.shape = "absent" THEN [raised |-> FALSE, elems |-> {}]
    ELSE IF v = 3 THEN JsonLoad(d) ELSE LinesLoad(d)

\* Whether load_processed_chunks raises on this content.
LoadRaises(f, v) == Load(DocOf(f, v), v).raised

\* The set load_processed_chunks returns when it does not raise.
LoadSet(f, v) == {e.v : e \in Load(DocOf(f, v), v).elems}

\* open(processed_chunks_file, 'w') or (..., 'a'): 'w' truncates, 'a' creates.
OpenFile(f, v) ==
    IF v = 3 THEN EmptyFile
    ELSE IF f.kind = "absent" THEN EmptyFile ELSE f

\* json.dump(list(processed_chunks), f) or f.write(f"{chunk_number}\n").
WriteFile(f, v, set, n) ==
    IF v = 3 THEN JsonFile(SetToList(set))
    ELSE LinesFile(Append(f.items, n))

-----------------------------------------------------------------------------
(***************************************************************************)
(* Directories.                                                            *)
(***************************************************************************)
\* The working directory of a freshly started process.
LaunchDir(k) == IF k = "dot" THEN "repo" ELSE "launch"

\* Whether os.chdir(repo_path) raises from directory d: a relative path is
\* resolved against d, and the repository holds no directory of that name.
ChdirRaises(d, k) == k = "rel" /\ d = "repo"

-----------------------------------------------------------------------------
(***************************************************************************)
(* Events and summaries.                                                   *)
(***************************************************************************)
\* path is the argument of the call: the path of a git add, the message of a
\* git commit, "" otherwise.
Event(op, path, res) == [op |-> op, path |-> path, res |-> res]

Has(s, op, res) == \E i \in DOMAIN s : s[i].op = op /\ s[i].res = res
HasOp(s, op) == \E i \in DOMAIN s : s[i].op = op

VcsOps == {"add", "commit", "push"}

\* A message built with the two numbers exchanged.
CommitMessageSwapped(n, fc) == <<"Chunk #", fc, " - ", n, " files pushed successfully">>

\* The commit message of git_commit_chunk.
CommitMessage(n, fc) == <<"Chunk #", n, " - ", fc, " files pushed successfully">>

\* What a finished chunk leaves in the log.
Summary(c, s, outcome) ==
    [number  |-> c.number,
     outcome |-> outcome,
     vcs     |-> \E i \in DOMAIN s : s[i].op \in VcsOps,
     stage   |-> IF outcome = "skipped" THEN "none"
                 ELSE IF Has(s, "add", "fail") \/ Has(s, "chdir", "raise")
                 THEN "fail" ELSE "ok",
     commit  |-> IF Has(s, "commit", "ok") THEN "ok"
                 ELSE IF HasOp(s, "commit") THEN "fail" ELSE "none",
     push    |-> IF Has(s, "push", "ok") THEN "ok"
                 ELSE IF HasOp(s, "push") THEN "fail" ELSE "none",
     saved   |-> HasOp(s, "save"),
     wrote   |-> HasOp(s, "write")]

-----------------------------------------------------------------------------
\* load_processed_chunks has not been called on rawFile.
NotLoaded == [called |-> FALSE, raised |-> FALSE, elems |-> {}]

\* parse_chunks has not been called.
ParseIdle ==
    /\ text = <<>>
    /\ lineNo = 1
    /\ current_chunk = <<>>
    /\ parsed = <<>>
    /\ parseState = "idle"

\* No function is under check on its own.
UnitIdle ==
    /\ rawFile = Doc("absent", <<>>)
    /\ loadOut = NotLoaded
    /\ ParseIdle

\* No directory holds a store file.
NoStore == store = [d \in Dirs |-> Absent]

\* The process has not been started and the repository is fresh.
ProcessIdle ==
    /\ pc = "idle"
    /\ ending = "none"
    /\ run = 0
    /\ idx = 1
    /\ fileIdx = 1
    /\ cwd = LaunchDir(pathKind)
    /\ processed_chunks = {}
    /\ pending = {}
    /\ index = {}
    /\ history = {}
    /\ remote = {}
    /\ calls = <<>>
    /\ callsIdx = 0
    /\ log = <<>>
    /\ savedIn = [d \in Dirs |-> {}]
    /\ committedBefore = {}
    /\ committed = {}

Init ==
    /\ chunks \in ChunkLists
    /\ version \in Versions
    /\ pathKind \in PathKinds
    /\ env = "ok"
    /\ benignReruns = FALSE
    /\ ProcessIdle
    /\ NoStore
    /\ UnitIdle

\* The chunk the loop is at.
Chunk == chunks[idx]

\* The run is a re-run in which no command and no file operation fails for
\* a reason outside the script and the repository.
Benign == benignReruns /\ run > 1

\* A loop that leaves (`break`) where the code has `continue`.
AdvanceOrBreak(s, outcome) ==
    /\ log' = Append(log, Summary(Chunk, s, outcome))
    /\ calls' = s
    /\ idx' = idx + 1
    /\ fileIdx' = 1
    /\ IF idx = Len(chunks) \/ outcome \notin {"skipped", "succeeded"}
       THEN pc' = "done" /\ ending' = "completed"
       ELSE pc' = "loop" /\ ending' = ending

\* `continue` or the normal end of the loop body: the loop moves on, and ends
\* the run after the last chunk.
Advance(s, outcome) ==
    /\ log' = Append(log, Summary(Chunk, s, outcome))
    /\ calls' = s
    /\ idx' = idx + 1
    /\ fileIdx' = 1
    /\ IF idx = Len(chunks)
       THEN pc' = "done" /\ ending' = "completed"
       ELSE pc' = "loop" /\ ending' = ending

\* An exception that leaves process_chunks: main logs it and returns.
Abort(s) ==
    /\ calls' = s
    /\ pc' = "done"
    /\ ending' = "exception"
    /\ UNCHANGED <<idx, fileIdx, log>>

\* A skip test that looks up the wrong field of the record.
AlreadyProcessedByCount(c, loaded) == c.file_count \in loaded

\* The skip test of the loop.
AlreadyProcessed(c, loaded) == c.number \in loaded

\* A validation that forgets the .git test.
PathsRejectedNoGit(e) == e \in {"nolog", "norepo"}

\* The three path tests of main, each followed by `return`.
PathsRejected(e) == e \in {"nolog", "norepo", "nogit"}

\* main: the path tests, the test for an empty chunk list, and the load that
\* starts process_chunks.  A restarted process begins in the launch directory.
StartRun ==
    /\ pc \in {"idle", "done"}
    /\ run < MaxRuns \/ benignReruns
    /\ run' = IF run < MaxRuns THEN run + 1 ELSE run
    /\ cwd' = LaunchDir(pathKind)
    /\ idx' = 1
    /\ fileIdx' = 1
    /\ calls' = <<>>
    /\ callsIdx' = 0
    /\ log' = <<>>
    /\ pending' = {}
    /\ committedBefore' = committed
    /\ IF PathsRejected(env)
       THEN pc' = "done" /\ ending' = "rejected" /\ processed_chunks' = {}
       ELSE IF chunks = <<>>
       THEN pc' = "done" /\ ending' = "nochunks" /\ processed_chunks' = {}
       ELSE IF LoadRaises(store[LaunchDir(pathKind)], version)
       THEN pc' = "done" /\ ending' = "exception" /\ processed_chunks' = {}
       ELSE /\ pc' = "loop"
            /\ ending' = "running"
            /\ processed_chunks' = LoadSet(store[LaunchDir(pathKind)], version)
    /\ UNCHANGED <<inputVars, repoVars, store, savedIn, committed>>

\* The head of the loop body: the skip test, then git_add_files up to chdir.
BeginChunk ==
    /\ pc = "loop"
    /\ callsIdx' = idx
    /\ IF AlreadyProcessed(Chunk, processed_chunks)
       THEN /\ Advance(<<>>, "skipped")
            /\ cwd' = cwd
       ELSE IF ChdirRaises(cwd, pathKind)
       THEN /\ Advance(<<Event("chdir", "", "raise")>>, "staging-failed")
            /\ cwd' = cwd
       ELSE /\ cwd' = "repo"
            /\ calls' = <<>>
            /\ fileIdx' = 1
            /\ pc' = IF Chunk.files = <<>> THEN "commit" ELSE "add"
            /\ UNCHANGED <<idx, log, ending>>
    /\ UNCHANGED <<inputVars, repoVars, run, processed_chunks, pending, store,
                   savedIn, committedBefore, committed>>

\* git add of an existing path: a path whose content is already in the
\* history has no change to stage.
StageFile(ix, h, f) ==
    IF \E c \in h : f \in c.files THEN ix ELSE ix \cup {f}

\* What git_add_files does after one file went through without an error.
NextFile(s) ==
    /\ calls' = s
    /\ fileIdx' = fileIdx + 1
    /\ pc' = IF fileIdx = Len(Chunk.files) THEN "commit" ELSE "add"
    /\ UNCHANGED <<idx, log, ending>>

\* A git_add_files that logs the error of a file and goes on to the next.
AddNeverAborts(r) == FALSE

\* Whether git_add_files gives up (returns False) after this result of one
\* file: a CalledProcessError or any other exception of git add.
AddAborts(r) == r = "fail"

\* One turn of the loop of git_add_files, and the test of its result when it
\* returns.  A file is missing, or git add runs and succeeds or fails.
AddFile ==
    /\ pc = "add"
    /\ \E r \in (IF Benign THEN {"ok"} ELSE {"missing", "ok", "fail"}) :
         LET f == Chunk.files[fileIdx]
             e == IF r = "missing" THEN Event("exists", f, r) ELSE Event("add", f, r)
         IN  /\ index' = IF r = "ok" THEN StageFile(index, history, f) ELSE index
             /\ IF AddAborts(r)
                THEN Advance(Append(calls, e), "staging-failed")
                ELSE NextFile(Append(calls, e))
    /\ UNCHANGED <<inputVars, history, remote, run, cwd, processed_chunks, pending,
                   store, callsIdx, savedIn, committedBefore, committed>>

\* Where the loop body goes after git_commit_chunk returned True.
AfterCommit(s) ==
    /\ calls' = s
    /\ pc' = "push"
    /\ UNCHANGED <<idx, fileIdx, log, ending>>

\* A git commit --allow-empty.
CommitResultsAllowEmpty(ix) == {"ok", "fail", "raise"}

\* The results git commit can have: it succeeds only with something staged.
CommitResults(ix) ==
    IF ix = {} THEN (IF Benign THEN {"fail"} ELSE {"fail", "raise"})
    ELSE IF Benign THEN {"ok"} ELSE {"ok", "fail", "raise"}

\* A git_commit_chunk whose except branch returns True.
CommitReturnsAlways(r) == TRUE

\* What git_commit_chunk returns: True, or False from its except branch.
CommitReturns(r) == r = "ok"

\* git_commit_chunk and the test of its result.  "raise" is an error that is
\* no CalledProcessError (the command could not be started): it is not caught.
Commit ==
    /\ pc = "commit"
    /\ \E r \in CommitResults(index) :
         LET commit_message == CommitMessage(Chunk.number, Chunk.file_count)
             s == Append(calls, Event("commit", commit_message, r)) IN
         /\ IF r = "ok"
            THEN /\ history' = history \cup
                        {[msg |-> commit_message, files |-> index]}
                 /\ index' = {}
                 /\ committed' = committed \cup {idx}
            ELSE UNCHANGED <<index, history, committed>>
         /\ IF r = "raise" THEN Abort(s)
            ELSE IF CommitReturns(r) THEN AfterCommit(s)
            ELSE Advance(s, "commit-failed")
    /\ UNCHANGED <<inputVars, remote, run, cwd, processed_chunks, pending, store,
                   callsIdx, savedIn, committedBefore>>

\* Where the loop body goes after git_push returned True.
AfterPush(s) ==
    /\ calls' = s
    /\ pc' = IF version = 3 THEN "save" ELSE "open"
    /\ UNCHANGED <<idx, fileIdx, log, ending>>

\* A git_push whose except branch returns True.
PushReturnsAlways(r) == TRUE

\* What git_push returns: True, or False from its except branch.
PushReturns(r) == r = "ok"

\* git_push and the test of its result; "raise" as for Commit.
Push ==
    /\ pc = "push"
    /\ \E r \in (IF Benign THEN {"ok"} ELSE {"ok", "fail", "raise"}) :
         LET s == Append(calls, Event("push", "", r)) IN
         /\ remote' = IF r = "ok" THEN history ELSE remote
         /\ IF r = "raise" THEN Abort(s)
            ELSE IF PushReturns(r) THEN AfterPush(s)
            ELSE Advance(s, "push-failed")
    /\ UNCHANGED <<inputVars, index, history, run, cwd, processed_chunks, pending,
                   store, callsIdx, savedIn, committedBefore, committed>>

\* V3 save_processed_chunk: the load and the add.
SaveLoad ==
    /\ pc = "save"
    /\ IF LoadRaises(store[cwd], version)
       THEN /\ Abort(Append(calls, Event("save", "", "raise")))
            /\ pending' = pending
       ELSE /\ calls' = Append(calls, Event("save", "", "ok"))
            /\ pending' = LoadSet(store[cwd], version) \cup {Chunk.number}
            /\ pc' = "open"
            /\ UNCHANGED <<idx, fileIdx, log, ending>>
    /\ UNCHANGED <<inputVars, repoVars, run, cwd, processed_chunks, store,
                   callsIdx, savedIn, committedBefore, committed>>

\* The events of the chunk once save_processed_chunk is known to be running.
SaveCalled(s) ==
    IF HasOp(s, "save") THEN s ELSE Append(s, Event("save", "", "ok"))

\* save_processed_chunk: open of the store file.
SaveOpen ==
    /\ pc = "open"
    /\ \/ /\ store' = [store EXCEPT ![cwd] = OpenFile(store[cwd], version)]
          /\ calls' = SaveCalled(calls)
          /\ pc' = "write"
          /\ UNCHANGED <<idx, fileIdx, log, ending>>
       \/ /\ ~Benign
          /\ Abort(Append(SaveCalled(calls), Event("open", "", "raise")))
          /\ store' = store
    /\ UNCHANGED <<inputVars, repoVars, run, cwd, processed_chunks, pending,
                   callsIdx, savedIn, committedBefore, committed>>

\* save_processed_chunk: the write and the close; the loop body ends.
SaveWrite ==
    /\ pc = "write"
    /\ store' = [store EXCEPT
                   ![cwd] = WriteFile(store[cwd], version, pending, Chunk.number)]
    /\ savedIn' = [savedIn EXCEPT ![cwd] = @ \cup {idx}]
    /\ Advance(Append(calls, Event("write", "", "ok")), "succeeded")
    /\ UNCHANGED <<inputVars, repoVars, run, cwd, processed_chunks, pending,
                   callsIdx, committedBefore, committed>>

\* The process is killed or interrupted: what it held in memory is gone, the
\* files and the repository stay as they are.
Crash ==
    /\ pc \in {"loop", "add", "commit", "push", "save", "open", "write"}
    /\ pc' = "done"
    /\ ending' = "crashed"
    /\ idx' = 1
    /\ fileIdx' = 1
    /\ cwd' = LaunchDir(pathKind)
    /\ processed_chunks' = {}
    /\ pending' = {}
    /\ calls' = <<>>
    /\ callsIdx' = 0
    /\ log' = <<>>
    /\ UNCHANGED <<inputVars, repoVars, run, store, savedIn, committedBefore,
                   committed>>

Next ==
    \/ StartRun
    \/ BeginChunk
    \/ AddFile
    \/ Commit
    \/ Push
    \/ SaveLoad
    \/ SaveOpen
    \/ SaveWrite
    \/ Crash

Spec == Init /\ [][Next]_vars

-----------------------------------------------------------------------------
(***************************************************************************)
(* Vocabulary of the properties.                                           *)
(***************************************************************************)
\* The chunk that calls belongs to.
CallsChunk == chunks[callsIdx]

\* The numbers whose save_processed_chunk has returned, into the store file
\* of directory d and into any store file.
SavedNums(d) == {chunks[i].number : i \in savedIn[d]}
SavedEver == UNION {SavedNums(d) : d \in Dirs}

\* The positions whose save_processed_chunk has returned.
Recorded == UNION {savedIn[d] : d \in Dirs}

\* The position of the first record with the number of the record at j.
FirstOf(j) == Min({i \in DOMAIN chunks : chunks[i].number = chunks[j].number})

\* The events of calls that are git commands.
VcsCalls == SelectSeq(calls, LAMBDA e : e.op \in VcsOps)

\* The events of calls that belong to one file of git_add_files each.
FileEvents == SelectSeq(calls, LAMBDA e : e.op \in {"exists", "add"})

\* The process is inside the body of the loop, at chunk idx.
InChunk == pc \in {"add", "commit", "push", "save", "open", "write"}

\* A finished chunk for which stage, commit or push returned failure.
Failed(e) == e.stage = "fail" \/ e.commit = "fail" \/ e.push = "fail"

\* A finished chunk for which stage, commit and push all returned success.
AllSucceeded(e) == e.stage = "ok" /\ e.commit = "ok" /\ e.push = "ok"

-----------------------------------------------------------------------------
(***************************************************************************)
(* C1.  Resumability across runs: a re-run over the same chunk list issues *)
(* no stage call and no commit call for a chunk whose commit an earlier    *)
(* run already created.  Stated here for the chunks an earlier run         *)
(* completed, commit, push and record: a chunk committed but not pushed is *)
(* re-staged by design of the skip test, which reads the store only.       *)
(* The code does not have the property even for those chunks.              *)
(***************************************************************************)
C1_NoRestageOfCommitted ==
    \A i \in DOMAIN calls :
        calls[i].op \in {"add", "commit"} =>
            ~( /\ callsIdx \in committedBefore
               /\ callsIdx \in Recorded
               /\ ~HasOp(calls, "write") )

(***************************************************************************)
(* C2.  Idempotent resume within one run: for a chunk record whose number  *)
(* is in the set loaded at the start of process_chunks, the run makes no   *)
(* stage, commit or push call and no store write (no event at all), and    *)
(* the record ends skipped.                                                *)
(***************************************************************************)
C2_IdempotentResume ==
    /\ (callsIdx # 0 /\ CallsChunk.number \in processed_chunks) => calls = <<>>
    /\ \A i \in DOMAIN log :
          log[i].number \in processed_chunks =>
              /\ log[i].outcome = "skipped"
              /\ ~log[i].vcs /\ ~log[i].saved /\ ~log[i].wrote
    /\ (InChunk /\ pc \in {"open", "write"}) => Chunk.number \notin processed_chunks

\* A run that loaded a non-empty set skipped one record and replayed another.
C2_Witness ==
    /\ Len(log) = 2
    /\ log[1].number \in processed_chunks
    /\ log[1].outcome = "skipped"
    /\ log[2].vcs

(***************************************************************************)
(* C3.  save_processed_chunk is called for a chunk if and only if staging  *)
(* completed without abort, commit returned success and push returned      *)
(* success for it in that run; a chunk that is skipped or fails at one of  *)
(* the three steps causes no store write.                                  *)
(***************************************************************************)
C3_RecordIffAllSucceeded ==
    /\ \A i \in DOMAIN log :
          /\ log[i].saved <=> AllSucceeded(log[i])
          /\ log[i].wrote => log[i].saved
    /\ HasOp(calls, "save") \/ HasOp(calls, "write") \/ pc \in {"save", "open", "write"} =>
          /\ ~Has(calls, "add", "fail") /\ ~Has(calls, "chdir", "raise")
          /\ Has(calls, "commit", "ok")
          /\ Has(calls, "push", "ok")
    /\ (InChunk /\ Has(calls, "push", "ok")) => pc \in {"save", "open", "write"}

\* A run with a chunk that was recorded and a chunk that failed at push.
C3_Witness ==
    /\ Len(log) = 2
    /\ \E i, j \in DOMAIN log :
          /\ log[i].saved /\ log[i].wrote
          /\ log[j].push = "fail" /\ ~log[j].saved

(***************************************************************************)
(* C4.  Store round-trip across restart: once save_processed_chunk(n) has  *)
(* returned, every later load_processed_chunks call returns a set that     *)
(* contains n, the load at the start of a later run included.              *)
(* The code does not have this property: see C4_LoadContainsSaved.         *)
(***************************************************************************)
C4_LoadContainsSaved ==
    \* the load at the start of process_chunks
    /\ (pc = "loop" /\ idx = 1) => SavedEver \subseteq processed_chunks
    /\ (pc = "done" /\ ending = "exception" /\ callsIdx = 0) => SavedEver = {}
    \* the load inside save_processed_chunk
    /\ (pc = "open" /\ version = 3) => SavedEver \subseteq pending

(***************************************************************************)
(* C5.  Crash tolerance of the store: after a crash at any point of a run, *)
(* a store write included, the store loads without error and holds every   *)
(* number whose save_processed_chunk had returned before the crash.        *)
(* The code does not have this property: see C5_StoreSurvivesCrash.        *)
(***************************************************************************)
C5_StoreSurvivesCrash ==
    ending = "crashed" =>
        \A d \in Dirs :
            /\ ~LoadRaises(store[d], version)
            /\ SavedNums(d) \subseteq LoadSet(store[d], version)

(***************************************************************************)
(* C6.  No commit after a staging failure: once git add fails for a file   *)
(* that exists, no further file of the chunk is staged and neither commit  *)
(* nor push is invoked for the chunk in that run; a missing file is        *)
(* skipped and does not keep the chunk from its commit.                    *)
(***************************************************************************)
C6_NoCommitAfterStageFailure ==
    /\ \A i \in DOMAIN calls :
          (calls[i].op = "add" /\ calls[i].res = "fail") => i = Len(calls)
    /\ \A i \in DOMAIN log :
          log[i].stage = "fail" =>
              log[i].commit = "none" /\ log[i].push = "none" /\ ~log[i].saved
    /\ ( /\ callsIdx # 0
         /\ ~HasOp(calls, "chdir")
         /\ Len(FileEvents) = Len(CallsChunk.files)
         /\ \A k \in DOMAIN FileEvents : FileEvents[k].res \in {"missing", "ok"}
         /\ CallsChunk.number \notin processed_chunks )
       => (pc = "commit" /\ idx = callsIdx) \/ HasOp(calls, "commit")

\* After a chunk that failed at an existing file, a chunk with a missing file
\* has been committed.
C6_Witness ==
    /\ \E i \in DOMAIN log : log[i].stage = "fail" /\ log[i].vcs
    /\ Has(calls, "exists", "missing")
    /\ Has(calls, "commit", "ok")

(***************************************************************************)
(* C7.  Sequential ordering: per non-skipped chunk, in input order of the  *)
(* chunks, the git calls are the adds of the files in listed order, then   *)
(* at most one commit, then at most one push, the push only after a        *)
(* successful commit; no call is made for a chunk before the chunk before  *)
(* it is finished or after the next one is begun.                          *)
(***************************************************************************)
C7_SequentialOrdering ==
    LET v == VcsCalls
        fe == FileEvents
    IN  \* the files are looked at in listed order, each at most once
        /\ callsIdx # 0 =>
              /\ Len(fe) <= Len(CallsChunk.files)
              /\ \A k \in DOMAIN fe : fe[k].path = CallsChunk.files[k]
        \* adds, then at most one commit, then at most one push
        /\ \A i, j \in DOMAIN v :
              i < j => /\ v[j].op = "add" => v[i].op = "add"
                       /\ v[j].op = "commit" => v[i].op = "add"
                       /\ v[j].op = "push" => v[i].op \in {"add", "commit"}
        /\ \A j \in DOMAIN v :
              v[j].op = "push" =>
                  j > 1 /\ v[j - 1].op = "commit" /\ v[j - 1].res = "ok"
        \* the chunks are taken one at a time, in input order
        /\ \A i \in DOMAIN log : i <= Len(chunks) /\ log[i].number = chunks[i].number
        /\ InChunk => callsIdx = idx /\ Len(log) = idx - 1
        /\ calls # <<>> => callsIdx \in {Len(log), Len(log) + 1}

\* Two chunks went through stage, commit and push one after the other, the
\* second with two files.
C7_Witness ==
    /\ Len(log) = 1 /\ log[1].push = "ok"
    /\ callsIdx = 2
    /\ Len(VcsCalls) = 4
    /\ VcsCalls[4].op = "push"

(***************************************************************************)
(* C8.  Skip-to-next failure policy: when stage, commit or push returns    *)
(* failure for chunk i, chunk i changes nothing in the store, the engine   *)
(* goes on to chunk i+1 (attempted with its own stage call unless already  *)
(* processed), and the failure does not end the run.                       *)
(***************************************************************************)
C8_SkipToNext ==
    /\ \A i \in DOMAIN log :
          Failed(log[i]) =>
              /\ ~log[i].saved /\ ~log[i].wrote
              /\ i < Len(chunks) =>
                    \/ pc = "loop" /\ idx = i + 1
                    \/ callsIdx > i
              /\ i = Len(chunks) => pc = "done" /\ ending = "completed"
    /\ \A i \in DOMAIN log :
          (i > 1 /\ Failed(log[i - 1])) =>
              IF log[i].number \in processed_chunks
              THEN log[i].outcome = "skipped"
              ELSE log[i].stage # "none"
    /\ (pc = "done" /\ ending = "completed") => Len(log) = Len(chunks)

\* A chunk failed and the next chunk was staged, committed, pushed, recorded.
C8_Witness ==
    /\ Len(log) = 2
    /\ Failed(log[1]) /\ log[1].vcs
    /\ log[2].outcome = "succeeded"
    /\ pc = "done"

(***************************************************************************)
(* C9.  Once the chunk loop has started no exception aborts the run: an    *)
(* error of the store write or re-read inside save_processed_chunk, or an  *)
(* error of the commit or push command that is no non-zero exit status,    *)
(* does not keep the following chunks from being processed.                *)
(* The code does not have this property: see C9_NoAbortInsideLoop.         *)
(***************************************************************************)
C9_NoAbortInsideLoop ==
    (pc = "done" /\ ending = "exception") => callsIdx = 0

(***************************************************************************)
(* C10.  Duplicate chunk numbers: once the first record with a number has  *)
(* succeeded (stage, commit, push, record), every later record with that   *)
(* number, in the same run or in a later run, is skipped with no git call. *)
(* The code does not have this property: see C10_DuplicateSkipped.         *)
(***************************************************************************)
C10_DuplicateSkipped ==
    \* a later record of the same run, finished
    /\ \A i, j \in DOMAIN log :
          (i < j /\ log[i].outcome = "succeeded" /\ log[j].number = log[i].number)
              => ~log[j].vcs
    \* a record met, in this run or a later one, after the first record with
    \* its number was recorded
    /\ ( /\ callsIdx # 0
         /\ FirstOf(callsIdx) \in Recorded
         /\ ~(FirstOf(callsIdx) = callsIdx /\ HasOp(calls, "write")) )
       => VcsCalls = <<>>

-----------------------------------------------------------------------------
(***************************************************************************)
(* load_processed_chunks on its own: the function applied to every store   *)
(* file of the revision, up to MaxItems items.                             *)
(***************************************************************************)
JsonValues == {Val(t, v) : t \in {"int", "str", "frac", "arr"}, v \in 1..MaxNum}
LineValues == {Val("int", v) : v \in 1..MaxNum} \cup {Val("blank", 0), Val("text", 0)}
Strs == {Val("str", v) : v \in 1..MaxNum}

Distinct(s) == \A i, j \in DOMAIN s : s[i] = s[j] => i = j

RawFiles(v) ==
    IF v = 3
    THEN {Doc("absent", <<>>), Doc("garbage", <<>>), Doc("scalar", <<>>)}
         \cup {Doc("list", s) : s \in SeqsUpTo(JsonValues, MaxItems)}
         \cup {Doc("object", s) : s \in {k \in SeqsUpTo(Strs, MaxItems) : Distinct(k)}}
         \cup {Doc("string", s) : s \in SeqsUpTo(Strs, MaxItems)}
    ELSE {Doc("absent", <<>>), Doc("garbage", <<>>)}
         \cup {Doc("lines", s) : s \in SeqsUpTo(LineValues, MaxItems)}

InitLoad ==
    /\ chunks = <<>>
    /\ version \in Versions
    /\ pathKind = "dot"
    /\ env = "ok"
    /\ benignReruns = FALSE
    /\ ProcessIdle
    /\ NoStore
    /\ rawFile \in RawFiles(version)
    /\ loadOut = NotLoaded
    /\ ParseIdle

LoadCall ==
    /\ ~loadOut.called
    /\ loadOut' = [called |-> TRUE,
                   raised |-> Load(rawFile, version).raised,
                   elems  |-> Load(rawFile, version).elems]
    /\ UNCHANGED <<chunks, version, pathKind, env, benignReruns, processVars,
                   rawFile, parseVars>>

NextLoad == LoadCall

SpecLoad == InitLoad /\ [][NextLoad]_vars

\* Whether the content is a collection of integers in the revision's format.
IsIntCollection(d, v) ==
    /\ d.shape = (IF v = 3 THEN "list" ELSE "lines")
    /\ \A i \in DOMAIN d.items : d.items[i].t = "int"

(***************************************************************************)
(* C11.  load_processed_chunks returns the empty set when the store file   *)
(* is absent, raises whenever the file exists and its content is not a     *)
(* collection of integers, and never returns a set that holds a value      *)
(* other than an integer.                                                  *)
(* The JSON revision does not have this property: see the second and third *)
(* conjunct on a JSON array of strings.                                    *)
(***************************************************************************)
C11_LoadRejectsCorruptStore ==
    loadOut.called =>
        /\ rawFile.shape = "absent" => (~loadOut.raised /\ loadOut.elems = {})
        /\ (rawFile.shape # "absent" /\ ~IsIntCollection(rawFile, version))
              => loadOut.raised
        /\ \A e \in loadOut.elems : e.t = "int"

-----------------------------------------------------------------------------
(***************************************************************************)
(* main over every environment: any state of the given paths, and a store  *)
(* file of any kind left in the launch directory by earlier use.           *)
(***************************************************************************)
FoundStores(v) ==
    {Absent, EmptyFile, IF v = 3 THEN JsonFile(<<1>>) ELSE LinesFile(<<1>>)}

InitMain ==
    /\ chunks \in SeqsUpTo(ChunkRecords, 1)
    /\ version \in Versions
    /\ pathKind \in PathKinds
    /\ env \in Envs
    /\ benignReruns = FALSE
    /\ env = "norepo" => pathKind # "dot"
    /\ ProcessIdle
    /\ \E f \in FoundStores(version) :
          store = [d \in Dirs |-> IF d = LaunchDir(pathKind) THEN f ELSE Absent]
    /\ UnitIdle

SpecMain == InitMain /\ [][Next]_vars

(***************************************************************************)
(* C12.  Pre-run rejection: when the log path is not a file, the           *)
(* repository path is not a directory or has no .git directory, or the log *)
(* yields no chunk, the run does not start: no git call is made, the       *)
(* working directory is not changed, and the store is neither read (a      *)
(* corrupt store raises nothing, a store with numbers loads nothing) nor   *)
(* written.                                                                *)
(***************************************************************************)
C12_RejectedRunTouchesNothing ==
    (env # "ok" \/ chunks = <<>>) =>
        /\ pc \in {"idle", "done"}
        /\ ending \in {"none", "rejected", "nochunks"}
        /\ run > 0 => ending = (IF env # "ok" THEN "rejected" ELSE "nochunks")
        /\ calls = <<>> /\ callsIdx = 0 /\ log = <<>>
        /\ index = {} /\ history = {} /\ remote = {}
        /\ cwd = LaunchDir(pathKind)
        /\ processed_chunks = {}
        /\ store[LaunchDir(pathKind)] \in FoundStores(version)
        /\ \A d \in Dirs : d # LaunchDir(pathKind) => store[d] = Absent
        /\ \A d \in Dirs : savedIn[d] = {}

\* A rejected run over a store that a load would have raised on.
C12_Witness ==
    /\ run = MaxRuns
    /\ env = "nogit"
    /\ ending = "rejected"
    /\ LoadRaises(store[LaunchDir(pathKind)], version)

-----------------------------------------------------------------------------
(***************************************************************************)
(* parse_chunks.  A line is a sequence of characters (without its line     *)
(* end); the string operations of the code are computed on characters.     *)
(***************************************************************************)
Digits == <<"0", "1", "2", "3", "4", "5", "6", "7", "8", "9">>
DigitSet == Range(Digits)
White == {" ", "\t"}

DigitVal(c) == (CHOOSE i \in DOMAIN Digits : Digits[i] = c) - 1

\* int(s) for a string of decimal digits.
RECURSIVE ParseInt(_)
ParseInt(s) ==
    IF s = <<>> THEN 0
    ELSE 10 * ParseInt(SubSeq(s, 1, Len(s) - 1)) + DigitVal(s[Len(s)])

Drop(l, n) == IF n >= Len(l) THEN <<>> ELSE SubSeq(l, n + 1, Len(l))
StartsWith(l, p) == Len(l) >= Len(p) /\ SubSeq(l, 1, Len(p)) = p

\* The longest prefix of l made of characters of S (a greedy class+).
RECURSIVE TakeWhile(_, _)
TakeWhile(l, S) ==
    IF l = <<>> \/ l[1] \notin S THEN <<>>
    ELSE <<l[1]>> \o TakeWhile(Drop(l, 1), S)

\* line.strip()
RECURSIVE LStrip(_)
LStrip(l) == IF l # <<>> /\ l[1] \in White THEN LStrip(Drop(l, 1)) ELSE l
RECURSIVE RStrip(_)
RStrip(l) ==
    IF l # <<>> /\ l[Len(l)] \in White THEN RStrip(SubSeq(l, 1, Len(l) - 1)) ELSE l
Strip(l) == RStrip(LStrip(l))

\* s.split(' '): a cut at every single space, empty pieces kept.
RECURSIVE SplitSpace(_)
SplitSpace(l) ==
    LET head == TakeWhile(l, {c \in Range(l) : c # " "})
    IN  IF Len(head) = Len(l) THEN <<l>>
        ELSE <<head>> \o SplitSpace(Drop(l, Len(head) + 1))

LitChunk == <<"C", "h", "u", "n", "k", " ", "#">>
LitOpen == <<" ", "(">>
LitFiles == <<" ", "f", "i", "l", "e", "s", ",", " ">>
LitMB == <<"M", "B", ")", ":">>
LitDash == <<"-", " ">>

\* re.match(r'^Chunk #(\d+) \((\d+) files, ([\d.]+)MB\):', l): the pattern
\* is anchored at the start only; no literal starts with a character of the
\* class before it, so the greedy match never backtracks.
HeaderMatch(l) ==
    LET r1 == Drop(l, Len(LitChunk))
        g1 == TakeWhile(r1, DigitSet)
        r2 == Drop(r1, Len(g1))
        r3 == Drop(r2, Len(LitOpen))
        g2 == TakeWhile(r3, DigitSet)
        r4 == Drop(r3, Len(g2))
        r5 == Drop(r4, Len(LitFiles))
        g3 == TakeWhile(r5, DigitSet \cup {"."})
        r6 == Drop(r5, Len(g3))
    IN  [ok |-> /\ StartsWith(l, LitChunk) /\ g1 # <<>>
                /\ StartsWith(r2, LitOpen) /\ g2 # <<>>
                /\ StartsWith(r4, LitFiles) /\ g3 # <<>>
                /\ StartsWith(r6, LitMB),
         g1 |-> g1, g2 |-> g2, g3 |-> g3]

\* A decimal value mant / 10^exp without trailing zeros in the fraction.
RECURSIVE Decimal(_, _)
Decimal(m, k) ==
    IF k > 0 /\ m % 10 = 0 THEN Decimal(m \div 10, k - 1)
    ELSE [mant |-> m, exp |-> k]

\* float(s) for s made of digits and dots: ValueError unless s has at least
\* one digit and at most one dot.
FloatRaises(s) ==
    \/ Cardinality({i \in DOMAIN s : s[i] = "."}) > 1
    \/ \A i \in DOMAIN s : s[i] = "."

FloatValue(s) ==
    LET dots == {i \in DOMAIN s : s[i] = "."}
        k == IF dots = {} THEN 0 ELSE Len(s) - (CHOOSE i \in dots : TRUE)
    IN  Decimal(ParseInt(SelectSeq(s, LAMBDA c : c # ".")), k)

(***************************************************************************)
(* The logs parse_chunks is applied to, built from the grammar of the log: *)
(* header lines, file lines (indented, one or two spaces after the dash)   *)
(* and lines that are neither: a blank line, a line of text, and header    *)
(* lines whose size is no decimal number or that lack the MB suffix.       *)
(***************************************************************************)
RECURSIVE Dec(_)
Dec(n) == IF n < 10 THEN <<Digits[n + 1]>>
          ELSE Dec(n \div 10) \o <<Digits[(n % 10) + 1]>>

Spaces(n) == [i \in 1..n |-> " "]

SizeText(d) ==
    IF d.exp = 0 THEN Dec(d.mant)
    ELSE Dec(d.mant \div 10) \o <<".">> \o Dec(d.mant % 10)

HeaderText(n, fc, size) ==
    LitChunk \o Dec(n) \o LitOpen \o Dec(fc) \o LitFiles \o size \o LitMB

PathTexts == {<<"a">>, <<"b", ".", "c">>}
Sizes == {Decimal(15, 1), Decimal(7, 0)}

HeaderItems ==
    {[kind |-> "header", number |-> n, file_count |-> 3, size_mb |-> d] :
        n \in {1, 12}, d \in Sizes}
FileItems ==
    {[kind |-> "file", gap |-> g, path |-> p] : g \in 1..2, p \in PathTexts}
NoiseItems ==
    {[kind |-> "noise", chars |-> c] :
        c \in {<<>>,
               <<"T", "o", "t", "a", "l">>,
               HeaderText(1, 3, <<"1", ".", "2", ".", "3">>),
               HeaderText(1, 3, <<".">>),
               SubSeq(HeaderText(1, 3, <<"7">>), 1, Len(HeaderText(1, 3, <<"7">>)) - Len(LitMB))}}

Items == HeaderItems \cup FileItems \cup NoiseItems

\* The line of the log an item stands for.
Render(it) ==
    IF it.kind = "header"
    THEN HeaderText(it.number, it.file_count, SizeText(it.size_mb))
    ELSE IF it.kind = "file"
    THEN Spaces(2) \o <<"-">> \o Spaces(it.gap) \o it.path
    ELSE it.chars

InitParse ==
    /\ chunks = <<>>
    /\ version = 3
    /\ pathKind = "dot"
    /\ env = "ok"
    /\ benignReruns = FALSE
    /\ ProcessIdle
    /\ NoStore
    /\ rawFile = Doc("absent", <<>>)
    /\ loadOut = NotLoaded
    /\ text \in SeqsUpTo(Items, MaxLines)
    /\ lineNo = 1
    /\ current_chunk = <<>>
    /\ parsed = <<>>
    /\ parseState = "reading"

\* One pass of `for line in f`.
ParseLine ==
    /\ parseState = "reading"
    /\ lineNo <= Len(text)
    /\ LET l == Strip(Render(text[lineNo]))
           chunk_match == HeaderMatch(l)
       IN  IF chunk_match.ok
           THEN IF FloatRaises(chunk_match.g3)
                THEN /\ parseState' = "raised"
                     /\ UNCHANGED <<lineNo, current_chunk, parsed>>
                ELSE /\ parsed' = parsed \o current_chunk
                     /\ current_chunk' =
                           <<[number     |-> ParseInt(chunk_match.g1),
                              file_count |-> ParseInt(chunk_match.g2),
                              size_mb    |-> FloatValue(chunk_match.g3),
                              files      |-> <<>>]>>
                     /\ lineNo' = lineNo + 1
                     /\ UNCHANGED parseState
           ELSE IF current_chunk # <<>> /\ StartsWith(l, LitDash)
           THEN /\ current_chunk' =
                      <<[current_chunk[1] EXCEPT
                            !.files = Append(@, SplitSpace(l)[2])]>>
                /\ lineNo' = lineNo + 1
                /\ UNCHANGED <<parsed, parseState>>
           ELSE /\ lineNo' = lineNo + 1
                /\ UNCHANGED <<current_chunk, parsed, parseState>>
    /\ UNCHANGED <<chunks, version, pathKind, env, benignReruns, processVars,
                   loadVars, text>>

\* The end of the file: the last open chunk, then `return chunks`.
ParseEnd ==
    /\ parseState = "reading"
    /\ lineNo > Len(text)
    /\ parsed' = parsed \o current_chunk
    /\ parseState' = "returned"
    /\ UNCHANGED <<chunks, version, pathKind, env, benignReruns, processVars,
                   loadVars, text, lineNo, current_chunk>>

NextParse == ParseLine \/ ParseEnd

SpecParse == InitParse /\ [][NextParse]_vars

\* The records the grammar gives a log: a header opens a record, a file line
\* adds its path to the open record, every other line is ignored.
RECURSIVE Records(_, _, _)
Records(items, cur, acc) ==
    IF items = <<>> THEN acc \o cur
    ELSE LET it == items[1]
             rest == Drop(items, 1)
         IN  IF it.kind = "header"
             THEN Records(rest,
                          <<[number |-> it.number, file_count |-> it.file_count,
                             size_mb |-> it.size_mb, files |-> <<>>]>>,
                          acc \o cur)
             ELSE IF it.kind = "file" /\ cur # <<>>
             THEN Records(rest,
                          <<[cur[1] EXCEPT !.files = Append(@, it.path)]>>, acc)
             ELSE Records(rest, cur, acc)

(***************************************************************************)
(* C13.  Parser round-trip: for every log built from the grammar (header   *)
(* lines, file lines with whitespace-free paths, blank and non-matching    *)
(* lines between), parse_chunks returns one record per header in header    *)
(* order, each with the number, file count and size of its header and the  *)
(* paths of its file lines in order, the last open chunk included.         *)
(* The code does not have this property: see C14 and C15.                  *)
(***************************************************************************)
C13_ParserRoundTrip ==
    parseState \in {"returned", "raised"} =>
        /\ parseState = "returned"
        /\ parsed = Records(text, <<>>, <<>>)

\* The lines of the log read so far.
LinesRead == SubSeq(text, 1, lineNo - 1)

Headers(items) == SelectSeq(items, LAMBDA it : it.kind = "header")

(***************************************************************************)
(* C14.  Parser tolerance: parse_chunks raises no error on any log; a line *)
(* that is neither a header nor a file line changes no record, a file line *)
(* before the first header is dropped, and a malformed header (a size such *)
(* as 1.2.3 or a lone dot, a missing MB suffix) opens no chunk and raises  *)
(* nothing: the result has one record per well-formed header, with its     *)
(* number and as many paths as it has file lines.                          *)
(* The code does not have this property: float() raises on such a size.    *)
(***************************************************************************)
C14_ParserTolerance ==
    /\ parseState # "raised"
    /\ parseState = "returned" =>
          /\ Len(parsed) = Len(Headers(text))
          /\ \A i \in DOMAIN parsed :
                /\ parsed[i].number = Headers(text)[i].number
                /\ Len(parsed[i].files) = Len(Records(text, <<>>, <<>>)[i].files)

(***************************************************************************)
(* C15.  File path extraction: for every file line inside an open chunk,   *)
(* the path appended to the chunk is the token after the dash when the     *)
(* trimmed line is split on runs of whitespace, so with two spaces between *)
(* the dash and the path too, and it is never the empty string.            *)
(* The code does not have this property: it splits on single spaces.       *)
(***************************************************************************)
C15_PathIsTokenAfterDash ==
    (parseState = "reading" /\ current_chunk # <<>>) =>
        LET expected == Records(LinesRead, <<>>, <<>>)
        IN  /\ \A i \in DOMAIN current_chunk[1].files :
                  current_chunk[1].files[i] # <<>>
            /\ current_chunk[1].files = expected[Len(expected)].files

-----------------------------------------------------------------------------
(***************************************************************************)
(* Runs over logs whose headers declare any file count, whatever the       *)
(* number of file lines below them.                                        *)
(***************************************************************************)
DeclaredCounts == 0..(MaxFiles + 1)

InitCounts ==
    /\ chunks \in SeqsUpTo([number : 1..MaxNum, file_count : DeclaredCounts,
                            files : FileLists], 1)
    /\ version \in Versions
    /\ pathKind \in PathKinds
    /\ env = "ok"
    /\ benignReruns = FALSE
    /\ ProcessIdle
    /\ NoStore
    /\ UnitIdle

SpecCounts == InitCounts /\ [][Next]_vars

(***************************************************************************)
(* C16.  Commit message: for every chunk that reaches the commit step, the *)
(* message passed to git commit is exactly                                 *)
(* "Chunk #<N> - <fileCount> files pushed successfully", N the number of   *)
(* the chunk and fileCount the count declared in its header, whatever the  *)
(* number of files listed, found or staged; a commit in the history        *)
(* carries the message of the call that made it.                           *)
(***************************************************************************)
C16_CommitMessage ==
    /\ \A i \in DOMAIN calls :
          calls[i].op = "commit" =>
              calls[i].path = <<"Chunk #", CallsChunk.number, " - ",
                                CallsChunk.file_count, " files pushed successfully">>
    /\ \A c \in history :
          \E k \in DOMAIN chunks :
              c.msg = <<"Chunk #", chunks[k].number, " - ",
                        chunks[k].file_count, " files pushed successfully">>

\* A commit call for a chunk that declares more files than it lists, with a
\* listed file missing and a single path staged.
C16_Witness ==
    /\ HasOp(calls, "commit")
    /\ CallsChunk.file_count > Len(CallsChunk.files)
    /\ CallsChunk.file_count # CallsChunk.number
    /\ Has(calls, "exists", "missing")
    /\ \E c \in history : Cardinality(c.files) = 1

-----------------------------------------------------------------------------
\* The five outcomes a record can end a run in.
Outcomes == {"skipped", "staging-failed", "commit-failed", "push-failed", "succeeded"}

\* The run went into the loop and has ended without the process being killed.
RunEnded == pc = "done" /\ callsIdx # 0 /\ ending \in {"completed", "exception"}

\* Every git command of the chunk taken last was started and has returned.
CommandsReturned ==
    \A i \in DOMAIN calls : calls[i].op \in VcsOps => calls[i].res # "raise"

(***************************************************************************)
(* C17.  Per-chunk state machine: provided every external command          *)
(* returns, a run that has ended visited each record exactly once, each    *)
(* record ended in exactly one of the five outcomes, with at most one      *)
(* commit call and one push call, so that the skipped, failed and          *)
(* succeeded records add up to the number of records.                      *)
(* The code does not have this property: an exception raised inside        *)
(* save_processed_chunk ends the run before the remaining records.         *)
(***************************************************************************)
C17_EveryRecordOneOutcome ==
    /\ Cardinality({i \in DOMAIN calls : calls[i].op = "commit"}) <= 1
    /\ Cardinality({i \in DOMAIN calls : calls[i].op = "push"}) <= 1
    /\ \A i \in DOMAIN log : log[i].outcome \in Outcomes
    /\ (RunEnded /\ CommandsReturned) =>
          /\ Len(log) = Len(chunks)
          /\ Cardinality({i \in DOMAIN log : log[i].outcome = "skipped"})
             + Cardinality({i \in DOMAIN log : log[i].outcome = "succeeded"})
             + Cardinality({i \in DOMAIN log :
                              log[i].outcome \in Outcomes \ {"skipped", "succeeded"}})
             = Len(chunks)

(***************************************************************************)
(* C18.  Commit contents: the staging index persisting across chunks,      *)
(* every commit created for a chunk holds only files listed in that chunk; *)
(* a file staged for an earlier chunk that failed at staging or at commit  *)
(* is not part of the commit of a later chunk.                             *)
(* The code does not have this property: nothing unstages such a file.     *)
(***************************************************************************)
C18_CommitOnlyOwnFiles ==
    [][\A c \in history' \ history : c.files \subseteq Range(Chunk.files)]_vars

-----------------------------------------------------------------------------
(***************************************************************************)
(* The script when its process is never killed.                            *)
(***************************************************************************)
NextNoCrash ==
    \/ StartRun
    \/ BeginChunk
    \/ AddFile
    \/ Commit
    \/ Push
    \/ SaveLoad
    \/ SaveOpen
    \/ SaveWrite

SpecNoCrash == Init /\ [][NextNoCrash]_vars

\* The numbers the store files hold.
Persisted == UNION {LoadSet(store[d], version) : d \in Dirs}

\* The commits on the remote that carry the message of record i.
Published(i) ==
    {c \in remote : c.msg = CommitMessage(chunks[i].number, chunks[i].file_count)}

(***************************************************************************)
(* C19.  Sole inconsistency window: without a crash, a chunk whose commit  *)
(* has reached the remote has its number in the persisted processed set,   *)
(* the chunk between push and store write apart; git push transmitting     *)
(* every local commit not yet on the remote, a chunk whose own push failed *)
(* is not published by the successful push of a later chunk while its      *)
(* number stays out of the processed set.                                  *)
(* The code does not have this property: stated here for the chunks whose  *)
(* push failed in the current run.                                         *)
(***************************************************************************)
C19_PushFailedNotPublished ==
    \A i \in DOMAIN log :
        log[i].outcome = "push-failed" =>
            \/ Published(i) = {}
            \/ chunks[i].number \in Persisted
            \/ pc \in {"save", "open", "write"} /\ Chunk.number = chunks[i].number

-----------------------------------------------------------------------------
(***************************************************************************)
(* Re-running the script for ever over the same log, from the repository   *)
(* directory: anything may fail in the first run; in every later run git   *)
(* add succeeds, git commit fails only with nothing staged, git push       *)
(* succeeds and the store file can be written.  The script is started      *)
(* again whenever it has ended, and a started run goes on.                 *)
(***************************************************************************)
InitRerun ==
    /\ chunks \in ChunkLists
    /\ version \in Versions
    /\ pathKind = "dot"
    /\ env = "ok"
    /\ benignReruns = TRUE
    /\ ProcessIdle
    /\ NoStore
    /\ UnitIdle

SpecRerun == InitRerun /\ [][NextNoCrash]_vars /\ WF_vars(NextNoCrash)

\* Record i ended the run that has just ended as push-failed.
EndedPushFailed(i) ==
    pc = "done" /\ i \in DOMAIN log /\ log[i].outcome = "push-failed"

\* The number of record i is in the processed set.
InProcessedSet(i) == i \in DOMAIN chunks /\ chunks[i].number \in Persisted

(***************************************************************************)
(* C20.  Convergence by re-running, as claimed: a chunk that ended a run   *)
(* push-failed has its number added to the processed set by the re-runs    *)
(* in which git no longer fails for outside reasons.                       *)
(***************************************************************************)
C20_PushFailedConverges ==
    \A i \in 1..MaxChunks : [](EndedPushFailed(i) => <>InProcessedSet(i))

\* Every file the log lists is in a local commit.
AllCommitted ==
    \A k \in DOMAIN chunks :
        \A f \in Range(chunks[k].files) : \E c \in history : f \in c.files

\* Nothing is staged, nothing is left to stage, and no chunk is between its
\* commit and its store write.
Quiet ==
    /\ index = {}
    /\ AllCommitted
    /\ pc \notin {"push", "save", "open", "write"}

(***************************************************************************)
(* C20, amended.  Re-running does not converge: once every file the log    *)
(* lists is committed locally and nothing is staged, no run adds a number  *)
(* to the processed set any more.  A chunk that ended a run push-failed    *)
(* and is then in this state is staged again by every re-run, its git      *)
(* commit fails with nothing to commit, and it never reaches push or the   *)
(* store write.                                                            *)
(***************************************************************************)
C20_QuietNeverRecords ==
    [][Quiet => (Quiet' /\ store' = store /\ remote' = remote)]_vars

\* A re-run has ended in which a chunk committed by an earlier run, and not
\* recorded, failed at commit again.
C20_Witness ==
    /\ Benign
    /\ pc = "done" /\ ending = "completed"
    /\ Quiet
    /\ \E i \in DOMAIN log :
          /\ i \in committedBefore
          /\ log[i].outcome = "commit-failed"
          /\ ~InProcessedSet(i)

-----------------------------------------------------------------------------
(***************************************************************************)
(* C21.  Working directory stability: for every repository path that main  *)
(* accepts, absolute or relative to the launch directory, os.chdir in      *)
(* git_add_files succeeds for every chunk that is not skipped, and the git *)
(* commands of every chunk run in the repository directory, so that a      *)
(* staging failure only ever comes from a git add.                         *)
(* The code does not have this property: a relative path is resolved       *)
(* against the directory the first chunk changed into.                     *)
(***************************************************************************)
C21_ChdirAlwaysSucceeds ==
    /\ ~Has(calls, "chdir", "raise")
    /\ InChunk => cwd = "repo"
    /\ \A i \in DOMAIN log : log[i].outcome = "staging-failed" => log[i].vcs

=============================================================================
